---- MODULE Spec2Model ----
(***************************************************************************)
(* BasicHashtable<F> / Hashtable<T, F> of hotspot/share/utilities:         *)
(* the block-pooled entry allocator, the bucket array, resize and          *)
(* maybe_grow.  Addresses are integers (bytes), NULL is 0.  An entry is    *)
(* the record stored at its address: hash, literal, next and the shared    *)
(* bit, which lives in the low bit of the _next word.                      *)
(***************************************************************************)
EXTENDS Integers, Sequences, FiniteSets, TLC

VARIABLES table_size, buckets, number_of_entries, entry_size,
          free_list, first_free_entry, end_block, entry_blocks,
          mem, heap_top, vm, build, last,
          rs,      \* the frame of the resize call in progress
          held     \* the entries new_entry returned that are not added yet

vars == <<table_size, buckets, number_of_entries, entry_size,
          free_list, first_free_entry, end_block, entry_blocks,
          mem, heap_top, vm, build, last, rs, held>>

(* ------------------------------ bounds -------------------------------- *)

\* entries ever handed out by the allocator (chained + on the free list)
MaxEntries == 2
\* hash values are 0..MaxHash
MaxHash == 2
\* resize(new_size) and maybe_grow(max_size, _) draw sizes from 1..MaxSize
MaxSize == 3
\* maybe_grow(_, load_factor) draws load factors from 0..MaxLoad
MaxLoad == 1
\* the scenario specification inserts up to ScenarioEntries entries
ScenarioEntries == 34
GrowEntries == 4
GrowMaxSize == 8
GrowLoad == 1

(* ----------------------------- constants ------------------------------ *)

NULL == 0
HeapWordSize == 8
MaxBlockEntries == 512
HeapBase == 1000

Hashes == 0..MaxHash
Literals == {"a", "b"}
\* symbol->size() of the two literals, in words
LiteralWords == [l \in Literals |-> IF l = "a" THEN 1 ELSE 2]
Barriers == {"none", "load"}
InitSizes == {2}
GrowSizes == {2, 3}
ScenarioSizes == {10, 16}
ScenarioMaxSizes == {32, 64}
ScenarioLoads == {1, 2}
LoadFactors == 0..MaxLoad
EntrySizes == {2 * HeapWordSize, 3 * HeapWordSize}
Builds == {"debug", "product"}

MIN2(a, b) == IF a < b THEN a ELSE b
MAX2(a, b) == IF a > b THEN a ELSE b

(* ------------------------- the table as a value ----------------------- *)

\* no resize call in progress
NoFrame == [pc |-> "idle", new_size |-> 0, table_size_old |-> 0,
            index_old |-> 0, buckets_new |-> <<>>]

Cur == [table_size |-> table_size, buckets |-> buckets,
        number_of_entries |-> number_of_entries, entry_size |-> entry_size,
        free_list |-> free_list, first_free_entry |-> first_free_entry,
        end_block |-> end_block, entry_blocks |-> entry_blocks,
        mem |-> mem, heap_top |-> heap_top, vm |-> vm, build |-> build,
        rs |-> rs, held |-> held]

Install(t) ==
    /\ table_size' = t.table_size
    /\ buckets' = t.buckets
    /\ number_of_entries' = t.number_of_entries
    /\ entry_size' = t.entry_size
    /\ free_list' = t.free_list
    /\ first_free_entry' = t.first_free_entry
    /\ end_block' = t.end_block
    /\ entry_blocks' = t.entry_blocks
    /\ mem' = t.mem
    /\ heap_top' = t.heap_top
    /\ vm' = t.vm
    /\ build' = t.build
    /\ rs' = t.rs
    /\ held' = t.held

\* the last call: its name, result and arguments; from: where new_entry took
\* the entry; alloc: how the bucket-array allocation of a resize ended
\* bad: the entries whose verify() hook fails; stats: what
\* statistics_calculate returned
NoOp == [op |-> "none", ret |-> FALSE, entry |-> NULL, from |-> "none",
         max_size |-> 0, load_factor |-> 0, alloc |-> "none",
         bad |-> {}, stats |-> <<>>]

(* ------------------------- entry accessors ---------------------------- *)

\* int h = full_hash % _table_size
hash_to_index(full_hash, size) == full_hash % size

\* _next = next: the whole word is written, the shared bit with it
set_next(m, e, next) == [m EXCEPT ![e].next = next, ![e].shared = FALSE]

\* _next |= 1
set_shared(m, e) == [m EXCEPT ![e].shared = TRUE]

set_hash(m, e, hashValue) ==
    IF e \in DOMAIN m
    THEN [m EXCEPT ![e].hash = hashValue]
    ELSE m @@ (e :> [hash |-> hashValue, literal |-> "a",
                     next |-> NULL, shared |-> FALSE])

set_literal(m, e, obj) == [m EXCEPT ![e].literal = obj]

RECURSIVE Chain(_, _)
\* the entries reached from p by next(), in order
Chain(m, p) == IF p = NULL THEN <<>> ELSE <<p>> \o Chain(m, m[p].next)

Range(s) == {s[i] : i \in DOMAIN s}

(* ---------------------------- the allocator --------------------------- *)

\* new_entry_free_list without  _free_list = _free_list->next()
new_entry_free_list_NoPop(t) ==
    [t |-> t, entry |-> t.free_list]

\* BasicHashtable<F>::new_entry_free_list
new_entry_free_list(t) ==
    IF t.free_list # NULL
    THEN [t |-> [t EXCEPT !.free_list = t.mem[t.free_list].next],
          entry |-> t.free_list]
    ELSE [t |-> t, entry |-> NULL]

RECURSIVE log2_loop(_, _, _)
log2_loop(i, p, x) == IF p <= x THEN log2_loop(i + 1, p * 2, x) ELSE i

\* largest i such that 2^i <= x; -1 when x = 0
log2_int(x) == log2_loop(-1, 1, x)

\* what  1 << -1  can yield: the shift count is out of range, the result is
\* undefined; builds produce 0 or 1 << 31 (a negative int)
ShlUndefined == {0, -(2^30) - (2^30)}

\* len = 1 << log2_int(len), shl standing for the undefined shift's result
round_down_pow2(len, shl) == IF log2_int(len) >= 0 THEN 2^log2_int(len) ELSE shl

\* int block_size = MIN2(512, MAX2((int)_table_size / 2, (int)_number_of_entries))
block_size(t) ==
    MIN2(MaxBlockEntries, MAX2(t.table_size \div 2, t.number_of_entries))

\* NEW_C_HEAP_ARRAY2(char, len, F, CURRENT_PC): a block that no live block
\* overlaps; it does not return on failure, the VM exits
allocate_block(t, len) ==
    [t EXCEPT !.first_free_entry = t.heap_top,
              !.entry_blocks = Append(t.entry_blocks,
                                      [base |-> t.heap_top, len |-> len]),
              !.end_block = t.heap_top + len,
              !.heap_top = t.heap_top + MAX2(len, 1)]

\* if (_first_free_entry + _entry_size >= _end_block)
needs_block(t) == t.first_free_entry + t.entry_size >= t.end_block

\* NEW_C_HEAP_ARRAY2 is reached (no assert stopped a debug build before it) and
\* cannot serve the request: the C heap is exhausted, or len is negative
block_alloc_fails(t, allocOK, shl) ==
    LET len == round_down_pow2(t.entry_size * block_size(t), shl)
    IN  /\ ~(len < t.entry_size /\ t.build = "debug")
        /\ (len < 0 \/ ~allocOK)

\* new_block going on with the NULL a failed allocation would return
new_block_NoExit(t, allocOK, shl) ==
    LET len == round_down_pow2(t.entry_size * block_size(t), shl)
    IN  IF len < t.entry_size /\ t.build = "debug"
        THEN [t EXCEPT !.vm = "aborted"]
        ELSE IF len < 0 \/ ~allocOK
        THEN [t EXCEPT !.first_free_entry = NULL,
                       !.entry_blocks = Append(t.entry_blocks,
                                               [base |-> NULL, len |-> len]),
                       !.end_block = NULL + len]
        ELSE allocate_block(t, len)

\* the body of  if (_first_free_entry + _entry_size >= _end_block) { ... }
\* allocOK: the C heap has len bytes left; an assert aborts a debug build only
new_block(t, allocOK, shl) ==
    LET len == round_down_pow2(t.entry_size * block_size(t), shl)
    IN  IF len < t.entry_size /\ t.build = "debug"
        THEN [t EXCEPT !.vm = "aborted"]
        ELSE IF len < 0 \/ ~allocOK
        THEN [t EXCEPT !.vm = "aborted"]
        ELSE allocate_block(t, len)

\* entry = (BasicHashtableEntry<F>*)_first_free_entry;
\* _first_free_entry += _entry_size;
carve(t) ==
    [t |-> [t EXCEPT !.first_free_entry = t.first_free_entry + t.entry_size],
     entry |-> t.first_free_entry]

\* new_entry that never looks at the free list
new_entry_NoReuse(t, hashValue, allocOK, shl) ==
    LET t1 == IF t.first_free_entry + t.entry_size >= t.end_block
              THEN new_block(t, allocOK, shl)
              ELSE t
        r  == IF t1.vm = "aborted" THEN [t |-> t1, entry |-> NULL]
              ELSE carve(t1)
    IN  IF r.entry = NULL THEN r
        ELSE [t |-> [r.t EXCEPT !.mem = set_hash(r.t.mem, r.entry, hashValue)],
              entry |-> r.entry]

\* BasicHashtable<F>::new_entry
new_entry(t, hashValue, allocOK, shl) ==
    LET fl == new_entry_free_list(t)
        t1 == IF needs_block(t)
              THEN new_block(t, allocOK, shl)
              ELSE t
        r  == IF fl.entry # NULL THEN fl
              ELSE IF t1.vm = "aborted" THEN [t |-> t1, entry |-> NULL]
              ELSE carve(t1)
    IN  IF r.entry = NULL THEN r
        ELSE [t |-> [r.t EXCEPT !.mem = set_hash(r.t.mem, r.entry, hashValue)],
              entry |-> r.entry]

\* Hashtable<T, F>::new_entry
Hashtable_new_entry(t, hashValue, obj, allocOK, shl) ==
    LET r == new_entry(t, hashValue, allocOK, shl)
    IN  IF r.entry = NULL THEN r
        ELSE [t |-> [r.t EXCEPT !.mem = set_literal(r.t.mem, r.entry, obj)],
              entry |-> r.entry]

\* BasicHashtable<F>::add_entry: link as the new head of bucket index
add_entry(t, index, entry) ==
    [t EXCEPT !.mem = set_next(t.mem, entry, t.buckets[index]),
              !.buckets = [t.buckets EXCEPT ![index] = entry],
              !.number_of_entries = t.number_of_entries + 1]

\* BasicHashtable<F>::free_entry: push on the free list
free_entry(t, entry) ==
    [t EXCEPT !.mem = set_next(t.mem, entry, t.free_list),
              !.free_list = entry,
              !.number_of_entries = t.number_of_entries - 1]

\* a concrete table unlinking the head of bucket index before freeing it
unlink_head(t, index) ==
    [t EXCEPT !.buckets = [t.buckets EXCEPT
                              ![index] = t.mem[t.buckets[index]].next]]

(* ------------------------------ resize -------------------------------- *)

RECURSIVE BitAnd(_, _)
BitAnd(a, b) == IF a = 0 \/ b = 0 THEN 0
                ELSE (a % 2) * (b % 2) + 2 * BitAnd(a \div 2, b \div 2)

\* MoveEntry without  if (keep_shared) p->set_shared()
MoveEntry_NoKeepShared(st, p, size) ==
    LET index_new == hash_to_index(st.mem[p].hash, size)
    IN  [mem |-> set_next(st.mem, p, st.buckets_new[index_new]),
         buckets_new |-> [st.buckets_new EXCEPT ![index_new] = p]]

\* MoveEntry masking the hash with size - 1 instead of hash_to_index()
MoveEntry_MaskIndex(st, p, size) ==
    LET keep_shared == st.mem[p].shared
        index_new == BitAnd(st.mem[p].hash, size - 1)
        m1 == set_next(st.mem, p, st.buckets_new[index_new])
        b1 == [st.buckets_new EXCEPT ![index_new] = p]
    IN  [mem |-> IF keep_shared THEN set_shared(m1, p) ELSE m1,
         buckets_new |-> b1]

\* MoveEntry with  p->set_next(NULL)  for the link to the new bucket's head
MoveEntry_DropChain(st, p, size) ==
    LET keep_shared == st.mem[p].shared
        index_new == hash_to_index(st.mem[p].hash, size)
        m1 == set_next(st.mem, p, NULL)
        b1 == [st.buckets_new EXCEPT ![index_new] = p]
    IN  [mem |-> IF keep_shared THEN set_shared(m1, p) ELSE m1,
         buckets_new |-> b1]

\* the body of the inner loop of resize, for entry p; st is the memory and
\* buckets_new, size the _table_size hash_to_index() reads
MoveEntry(st, p, size) ==
    LET keep_shared == st.mem[p].shared
        index_new == hash_to_index(st.mem[p].hash, size)
        m1 == set_next(st.mem, p, st.buckets_new[index_new])
        b1 == [st.buckets_new EXCEPT ![index_new] = p]
    IN  [mem |-> IF keep_shared THEN set_shared(m1, p) ELSE m1,
         buckets_new |-> b1]

RECURSIVE MoveChain(_, _, _)
\* for (p = _buckets[index_old].get_entry(); p != NULL; ) { next = p->next(); ... p = next; }
MoveChain(st, p, size) ==
    IF p = NULL THEN st
    ELSE LET next == st.mem[p].next
         IN  MoveChain(MoveEntry(st, p, size), next, size)

RECURSIVE MoveBuckets(_, _, _, _, _)
\* for (index_old = 0; index_old < table_size_old; index_old++)
MoveBuckets(st, buckets_old, index_old, table_size_old, size) ==
    IF index_old >= table_size_old THEN st
    ELSE MoveBuckets(MoveChain(st, buckets_old[index_old], size),
                     buckets_old, index_old + 1, table_size_old, size)

\* resize once buckets_new is allocated: clear it, switch the size, move the
\* entries, free the old buckets and install the new ones
rehash(t, new_size) ==
    LET buckets_new == [i \in 0..(new_size - 1) |-> NULL]
        table_size_old == t.table_size
        t1 == [t EXCEPT !.table_size = new_size]
        st == MoveBuckets([mem |-> t1.mem, buckets_new |-> buckets_new],
                          t1.buckets, 0, table_size_old, t1.table_size)
    IN  [t |-> [t1 EXCEPT !.mem = st.mem, !.buckets = st.buckets_new],
         ret |-> TRUE]

\* resize that switches _table_size before it tests buckets_new
resize_SwitchBeforeCheck(t, new_size, allocOK) ==
    IF ~allocOK THEN [t |-> [t EXCEPT !.table_size = new_size], ret |-> FALSE]
    ELSE rehash(t, new_size)

\* BasicHashtable<F>::resize; allocOK: NEW_C_HEAP_ARRAY2_RETURN_NULL succeeded
resize(t, new_size, allocOK) ==
    IF ~allocOK THEN [t |-> t, ret |-> FALSE]
    ELSE rehash(t, new_size)

(* resize statement by statement; t.rs holds its locals and its position   *)

\* buckets_new = NEW_C_HEAP_ARRAY2_RETURN_NULL(...); return false if NULL;
\* buckets_new[i].clear() for every i
resize_allocate(t, new_size, allocOK) ==
    IF ~allocOK THEN [t |-> t, ret |-> FALSE]
    ELSE [t |-> [t EXCEPT !.rs = [NoFrame EXCEPT
                     !.pc = "cleared", !.new_size = new_size,
                     !.buckets_new = [i \in 0..(new_size - 1) |-> NULL]]],
          ret |-> TRUE]

\* table_size_old = _table_size; _table_size = new_size
resize_switch(t) ==
    [t EXCEPT !.table_size = t.rs.new_size,
              !.rs = [t.rs EXCEPT !.pc = "moving",
                                  !.table_size_old = t.table_size,
                                  !.index_old = 0]]

\* one round of the outer loop: the chain of _buckets[index_old] is moved
resize_move(t) ==
    LET st == MoveChain([mem |-> t.mem, buckets_new |-> t.rs.buckets_new],
                        t.buckets[t.rs.index_old], t.table_size)
    IN  [t EXCEPT !.mem = st.mem,
                  !.rs = [t.rs EXCEPT !.buckets_new = st.buckets_new,
                                      !.index_old = t.rs.index_old + 1]]

\* BasicHashtable<F>::free_buckets: FREE_C_HEAP_ARRAY(_buckets); _buckets = NULL
free_buckets(t) ==
    [t EXCEPT !.buckets = <<>>, !.rs = [t.rs EXCEPT !.pc = "freed"]]

\* resize returning without  _buckets = buckets_new
resize_install_Skip(t) ==
    [t EXCEPT !.rs = NoFrame]

\* _buckets = buckets_new; return true
resize_install(t) ==
    [t EXCEPT !.buckets = t.rs.buckets_new, !.rs = NoFrame]

\* load_exceeds with the load rounded up, not truncated
load_exceeds_RoundUp(t, load_factor) ==
    (t.number_of_entries + t.table_size - 1) \div t.table_size > load_factor

\* load_exceeds with >= for >
load_exceeds_Ge(t, load_factor) ==
    t.number_of_entries \div t.table_size >= load_factor

\* number_of_entries() / table_size() > load_factor
load_exceeds(t, load_factor) ==
    t.number_of_entries \div t.table_size > load_factor

\* maybe_grow doubling without MIN2<int>(..., max_size)
maybe_grow_NoCap(t, max_size, load_factor, allocOK) ==
    IF t.table_size >= max_size THEN [t |-> t, ret |-> FALSE, alloc |-> "none"]
    ELSE IF load_exceeds(t, load_factor)
    THEN [t |-> resize(t, t.table_size * 2, allocOK).t,
          ret |-> TRUE,
          alloc |-> IF allocOK THEN "ok" ELSE "failed"]
    ELSE [t |-> t, ret |-> FALSE, alloc |-> "none"]

\* BasicHashtable<F>::maybe_grow
maybe_grow(t, max_size, load_factor, allocOK) ==
    IF t.table_size >= max_size THEN [t |-> t, ret |-> FALSE, alloc |-> "none"]
    ELSE IF load_exceeds(t, load_factor)
    THEN [t |-> resize(t, MIN2(t.table_size * 2, max_size), allocOK).t,
          ret |-> TRUE,
          alloc |-> IF allocOK THEN "ok" ELSE "failed"]
    ELSE [t |-> t, ret |-> FALSE, alloc |-> "none"]

(* ---------------------------- diagnostics ---------------------------- *)

\* static int literal_size(Symbol *symbol)
literal_size(l) == LiteralWords[l] * HeapWordSize

\* T l = (literal_load_barrier != NULL) ? literal_load_barrier(e) : e->literal()
load_literal(t, e, barrier) == t.mem[e].literal

RECURSIVE StatsChain(_, _, _, _)
\* the inner loop of statistics_calculate: count++ and literal_bytes += ...
StatsChain(t, e, barrier, acc) ==
    IF e = NULL THEN acc
    ELSE StatsChain(t, t.mem[e].next, barrier,
                    [count |-> acc.count + 1,
                     literal_bytes |-> acc.literal_bytes
                                       + literal_size(load_literal(t, e, barrier))])

\* statistics_calculate adding a sample for the non-empty buckets only
RECURSIVE StatsBuckets_SkipEmpty(_, _, _, _)
StatsBuckets_SkipEmpty(t, i, barrier, acc) ==
    IF i >= t.table_size THEN acc
    ELSE LET c == StatsChain(t, t.buckets[i], barrier,
                             [count |-> 0, literal_bytes |-> acc.literal_bytes])
         IN  StatsBuckets_SkipEmpty(t, i + 1, barrier,
                 [summary |-> IF c.count > 0 THEN Append(acc.summary, c.count)
                              ELSE acc.summary,
                  literal_bytes |-> c.literal_bytes])

RECURSIVE StatsBuckets(_, _, _, _)
\* for (int i = 0; i < this->table_size(); ++i) { ... summary.add((double)count); }
StatsBuckets(t, i, barrier, acc) ==
    IF i >= t.table_size THEN acc
    ELSE LET c == StatsChain(t, t.buckets[i], barrier,
                             [count |-> 0, literal_bytes |-> acc.literal_bytes])
         IN  StatsBuckets(t, i + 1, barrier,
                          [summary |-> Append(acc.summary, c.count),
                           literal_bytes |-> c.literal_bytes])

\* Hashtable<T, F>::statistics_calculate: the samples given to the NumberSeq
\* and literal_bytes
statistics_calculate(t, barrier) ==
    StatsBuckets(t, 0, barrier, [summary |-> <<>>, literal_bytes |-> 0])

RECURSIVE VerifyChain_NoHook(_, _, _, _)
\* VerifyChain without the call probe->verify()
VerifyChain_NoHook(t, probe, bad, acc) ==
    IF probe = NULL \/ acc.failed THEN acc
    ELSE VerifyChain_NoHook(t, t.mem[probe].next, bad,
                            [acc EXCEPT !.bucket_count = acc.bucket_count + 1])

RECURSIVE VerifyChain(_, _, _, _)
\* the inner loop of verify_table: probe->verify(); bucket_count++
\* verify() of an entry in bad does not return: it ends the VM
VerifyChain(t, probe, bad, acc) ==
    IF probe = NULL \/ acc.failed THEN acc
    ELSE IF probe \in bad THEN [acc EXCEPT !.failed = TRUE]
    ELSE VerifyChain(t, t.mem[probe].next, bad,
                     [acc EXCEPT !.bucket_count = acc.bucket_count + 1])

RECURSIVE VerifyBuckets(_, _, _, _)
\* for (int index = 0; index < table_size(); index++) { ... }
VerifyBuckets(t, index, bad, acc) ==
    IF index >= t.table_size \/ acc.failed THEN acc
    ELSE LET c == VerifyChain(t, t.buckets[index], bad,
                              [bucket_count |-> 0, failed |-> FALSE])
             bigger == c.bucket_count > acc.max_bucket_count
         IN  VerifyBuckets(t, index + 1, bad,
                 [element_count |-> acc.element_count + c.bucket_count,
                  max_bucket_count |-> IF bigger THEN c.bucket_count
                                       ELSE acc.max_bucket_count,
                  max_bucket_number |-> IF bigger THEN index
                                        ELSE acc.max_bucket_number,
                  failed |-> c.failed])

\* BasicHashtable<F>::verify_table: TRUE when it returns, FALSE when a hook or
\* the guarantee ends the VM
verify_table(t, bad) ==
    LET v == VerifyBuckets(t, 0, bad,
                           [element_count |-> 0, max_bucket_count |-> 0,
                            max_bucket_number |-> 0, failed |-> FALSE])
    IN  ~v.failed /\ t.number_of_entries = v.element_count

(* --------------------------- derived values --------------------------- *)

\* the chain of bucket i
BucketChain(i) == Chain(mem, buckets[i])

RECURSIVE SumLen(_, _)
SumLen(f, S) == IF S = {} THEN 0
                ELSE LET i == CHOOSE x \in S : TRUE
                     IN  Len(f[i]) + SumLen(f, S \ {i})

\* the count verify_table makes: the chain lengths of buckets 0..table_size-1
element_count == SumLen([i \in 0..(table_size - 1) |-> BucketChain(i)],
                        0..(table_size - 1))

Chained == UNION {Range(Chain(mem, buckets[i])) : i \in DOMAIN buckets}
FreeList == Chain(mem, free_list)

(* ------------------------------ actions ------------------------------- *)

Init ==
    /\ table_size \in InitSizes
    /\ buckets = [i \in 0..(table_size - 1) |-> NULL]
    /\ number_of_entries = 0
    /\ entry_size \in EntrySizes
    /\ free_list = NULL
    /\ first_free_entry = NULL
    /\ end_block = NULL
    /\ entry_blocks = <<>>
    /\ mem = <<>>
    /\ heap_top = HeapBase
    /\ vm = "running"
    /\ build \in Builds
    /\ last = NoOp
    /\ rs = NoFrame
    /\ held = {}

\* a concrete table's insert: new_entry, then add_entry at hash_to_index
Insert(hashValue, obj, allocOK, shl) ==
    /\ vm = "running"
    /\ LET r == Hashtable_new_entry(Cur, hashValue, obj, allocOK, shl)
       IN  IF r.entry = NULL
           THEN /\ Install(r.t)
                /\ last' = [NoOp EXCEPT
                               !.op = "insert",
                               !.alloc = IF /\ free_list = NULL
                                            /\ needs_block(Cur)
                                            /\ block_alloc_fails(Cur, allocOK, shl)
                                         THEN "failed" ELSE "none"]
           ELSE /\ Install(add_entry(r.t, hash_to_index(hashValue, r.t.table_size),
                                     r.entry))
                /\ last' = [NoOp EXCEPT !.op = "insert", !.ret = TRUE,
                                        !.entry = r.entry,
                                        !.from = IF r.entry = free_list
                                                 THEN "free_list" ELSE "block"]

\* a concrete table's remove of the head of bucket index: unlink, free_entry
Remove(index) ==
    /\ vm = "running"
    /\ index \in DOMAIN buckets
    /\ buckets[index] # NULL
    /\ ~mem[buckets[index]].shared
    /\ Install(free_entry(unlink_head(Cur, index), buckets[index]))
    /\ last' = [NoOp EXCEPT !.op = "remove"]

\* set_shared() on a chained entry, done by the owner of a snapshot entry
SetShared(e) ==
    /\ vm = "running"
    /\ e \in Chained
    /\ ~mem[e].shared
    /\ mem' = set_shared(mem, e)
    /\ last' = [NoOp EXCEPT !.op = "set_shared"]
    /\ UNCHANGED <<table_size, buckets, number_of_entries, entry_size,
                   free_list, first_free_entry, end_block, entry_blocks,
                   heap_top, vm, build, rs, held>>

Resize(new_size, allocOK) ==
    /\ vm = "running"
    /\ new_size > 0
    /\ LET r == resize(Cur, new_size, allocOK)
       IN  /\ Install(r.t)
           /\ last' = [NoOp EXCEPT !.op = "resize", !.ret = r.ret]

MaybeGrow(max_size, load_factor, allocOK) ==
    /\ vm = "running"
    /\ LET r == maybe_grow(Cur, max_size, load_factor, allocOK)
       IN  /\ Install(r.t)
           /\ last' = [NoOp EXCEPT !.op = "maybe_grow", !.ret = r.ret,
                                   !.max_size = max_size,
                                   !.load_factor = load_factor,
                                   !.alloc = r.alloc]

\* verify_table<T>(table_name), compiled into non-product builds only
VerifyTable(bad) ==
    /\ vm = "running"
    /\ build = "debug"
    /\ LET done == verify_table(Cur, bad)
       IN  /\ Install([Cur EXCEPT !.vm = IF done THEN "running" ELSE "aborted"])
           /\ last' = [NoOp EXCEPT !.op = "verify", !.ret = done, !.bad = bad]

StatisticsCalculate(barrier) ==
    /\ vm = "running"
    /\ Install(Cur)
    /\ last' = [NoOp EXCEPT !.op = "statistics", !.ret = TRUE,
                            !.stats = statistics_calculate(Cur, barrier)]

\* Hashtable<T, F>::new_entry called on its own: the caller holds the entry
NewEntry(hashValue, obj, allocOK, shl) ==
    /\ vm = "running"
    /\ LET r == Hashtable_new_entry(Cur, hashValue, obj, allocOK, shl)
       IN  IF r.entry = NULL
           THEN /\ Install(r.t)
                /\ last' = [NoOp EXCEPT !.op = "new_entry"]
           ELSE /\ Install([r.t EXCEPT !.held = held \cup {r.entry}])
                /\ last' = [NoOp EXCEPT !.op = "new_entry", !.ret = TRUE,
                                        !.entry = r.entry,
                                        !.from = IF r.entry = free_list
                                                 THEN "free_list" ELSE "block"]

\* add_entry(hash_to_index(entry->hash()), entry) for an entry the caller holds
AddEntry(e) ==
    /\ vm = "running"
    /\ e \in held
    /\ Install(add_entry([Cur EXCEPT !.held = held \ {e}],
                         hash_to_index(mem[e].hash, table_size), e))
    /\ last' = [NoOp EXCEPT !.op = "add_entry", !.entry = e]

\* a concrete table's lookup: walk the chain of bucket hash_to_index(hash)
Lookup(hashValue, obj) ==
    /\ vm = "running"
    /\ LET index == hash_to_index(hashValue, table_size)
           found == {e \in Range(Chain(mem, buckets[index])) :
                       mem[e].hash = hashValue /\ mem[e].literal = obj}
       IN  last' = [NoOp EXCEPT !.op = "lookup", !.ret = found # {},
                       !.entry = IF found = {} THEN NULL
                                 ELSE CHOOSE e \in found :
                                         \A f \in found : e >= f]
    /\ Install(Cur)

\* resize(new_size) up to the test of buckets_new
ResizeAllocate(new_size, allocOK) ==
    /\ vm = "running" /\ rs.pc = "idle"
    /\ LET r == resize_allocate(Cur, new_size, allocOK)
       IN  /\ Install(r.t)
           /\ last' = [NoOp EXCEPT !.op = IF r.ret THEN "resize_step"
                                          ELSE "resize"]

ResizeSwitch ==
    /\ rs.pc = "cleared"
    /\ Install(resize_switch(Cur))
    /\ last' = [NoOp EXCEPT !.op = "resize_step"]

ResizeMove ==
    /\ rs.pc = "moving" /\ rs.index_old < rs.table_size_old
    /\ Install(resize_move(Cur))
    /\ last' = [NoOp EXCEPT !.op = "resize_step"]

ResizeFreeBuckets ==
    /\ rs.pc = "moving" /\ rs.index_old >= rs.table_size_old
    /\ Install(free_buckets(Cur))
    /\ last' = [NoOp EXCEPT !.op = "resize_step"]

ResizeInstall ==
    /\ rs.pc = "freed"
    /\ Install(resize_install(Cur))
    /\ last' = [NoOp EXCEPT !.op = "resize", !.ret = TRUE]

\* the allocator may hand out one more entry
CanAllocate == free_list # NULL \/ Cardinality(DOMAIN mem) < MaxEntries

Next ==
    \/ \E h \in Hashes, obj \in Literals, ok \in BOOLEAN, shl \in ShlUndefined :
          CanAllocate /\ Insert(h, obj, ok, shl)
    \/ \E i \in DOMAIN buckets : Remove(i)
    \/ \E e \in DOMAIN mem : SetShared(e)
    \/ \E n \in 1..MaxSize, ok \in BOOLEAN : Resize(n, ok)
    \/ \E m \in 1..MaxSize, lf \in LoadFactors, ok \in BOOLEAN : MaybeGrow(m, lf, ok)

Spec == Init /\ [][Next]_vars

(* The table with its diagnostics: verify_table and statistics_calculate    *)
(* run between the inserts, removes and resizes.                           *)

DiagNext ==
    \/ \E h \in Hashes, obj \in Literals, ok \in BOOLEAN, shl \in ShlUndefined :
          CanAllocate /\ Insert(h, obj, ok, shl)
    \/ \E i \in DOMAIN buckets : Remove(i)
    \/ \E n \in 1..MaxSize : Resize(n, TRUE)
    \/ \E bad \in SUBSET Chained : VerifyTable(bad)
    \/ \E barrier \in Barriers : StatisticsCalculate(barrier)

SpecDiag == Init /\ [][DiagNext]_vars

(* resize under exclusive access: the callers' lookups, inserts and        *)
(* removes run only between resize calls, never between its statements.   *)

StepsNext ==
    \/ \E h \in Hashes, obj \in Literals, ok \in BOOLEAN, shl \in ShlUndefined :
          rs.pc = "idle" /\ CanAllocate /\ Insert(h, obj, ok, shl)
    \/ \E i \in DOMAIN buckets : rs.pc = "idle" /\ Remove(i)
    \/ \E e \in DOMAIN mem : rs.pc = "idle" /\ SetShared(e)
    \/ \E h \in Hashes, obj \in Literals : rs.pc = "idle" /\ Lookup(h, obj)
    \/ \E n \in 1..MaxSize, ok \in BOOLEAN : ResizeAllocate(n, ok)
    \/ ResizeSwitch
    \/ ResizeMove
    \/ ResizeFreeBuckets
    \/ ResizeInstall

SpecSteps == Init /\ [][StepsNext]_vars

(* The allocator and the table used apart: new_entry hands an entry to    *)
(* the caller, who adds it to its bucket later or keeps it.               *)

AllocNext ==
    \/ \E h \in Hashes, obj \in Literals, ok \in BOOLEAN, shl \in ShlUndefined :
          CanAllocate /\ NewEntry(h, obj, ok, shl)
    \/ \E e \in held : AddEntry(e)
    \/ \E i \in DOMAIN buckets : Remove(i)
    \/ \E n \in 1..MaxSize, ok \in BOOLEAN : Resize(n, ok)

SpecAlloc == Init /\ [][AllocNext]_vars

(* The scenario: a table of 10 or 16 buckets with 16-byte entries, filled  *)
(* with distinct hash values 0, 1, 2, ... and offered to maybe_grow.       *)

ScenarioInit ==
    /\ table_size \in ScenarioSizes
    /\ buckets = [i \in 0..(table_size - 1) |-> NULL]
    /\ number_of_entries = 0
    /\ entry_size = 2 * HeapWordSize
    /\ free_list = NULL
    /\ first_free_entry = NULL
    /\ end_block = NULL
    /\ entry_blocks = <<>>
    /\ mem = <<>>
    /\ heap_top = HeapBase
    /\ vm = "running"
    /\ build \in Builds
    /\ last = NoOp
    /\ rs = NoFrame
    /\ held = {}

ScenarioNext ==
    \/ number_of_entries < ScenarioEntries
          /\ Insert(number_of_entries, "a", TRUE, 0)
    \/ \E m \in ScenarioMaxSizes, lf \in ScenarioLoads, ok \in BOOLEAN :
          MaybeGrow(m, lf, ok)

SpecScenario == ScenarioInit /\ [][ScenarioNext]_vars

(* Growth: a table of 2 or 3 buckets with 16-byte entries is filled, then  *)
(* offered to maybe_grow again and again, with one max_size and one        *)
(* load_factor, every allocation succeeding and no insert in between.      *)

GrowInit ==
    /\ table_size \in GrowSizes
    /\ buckets = [i \in 0..(table_size - 1) |-> NULL]
    /\ number_of_entries = 0
    /\ entry_size = 2 * HeapWordSize
    /\ free_list = NULL
    /\ first_free_entry = NULL
    /\ end_block = NULL
    /\ entry_blocks = <<>>
    /\ mem = <<>>
    /\ heap_top = HeapBase
    /\ vm = "running"
    /\ build \in Builds
    /\ last = NoOp
    /\ rs = NoFrame
    /\ held = {}

\* the entries get the hash values 0, 1, ..., MaxHash, 0, ...
GrowInsert ==
    /\ last.op # "maybe_grow"
    /\ number_of_entries < GrowEntries
    /\ Insert(number_of_entries % (MaxHash + 1), "a", TRUE, 0)

GrowCall(max_size, load_factor) ==
    /\ table_size <= max_size
    /\ last.op = "maybe_grow" =>
          max_size = last.max_size /\ load_factor = last.load_factor
    /\ MaybeGrow(max_size, load_factor, TRUE)

GrowStep == \E m \in 1..GrowMaxSize, lf \in 0..GrowLoad : GrowCall(m, lf)

GrowNext ==
    \/ GrowInsert
    \/ GrowStep

\* the caller keeps calling maybe_grow
SpecGrow == GrowInit /\ [][GrowNext]_vars /\ WF_vars(GrowStep)

(* ------------------------------ claims -------------------------------- *)

\* the table apart from the record of the last call
table == <<table_size, buckets, number_of_entries, entry_size, free_list,
           first_free_entry, end_block, entry_blocks, mem, heap_top, vm, build>>

\* the buckets whose chain holds e
BucketsOf(e) == {i \in DOMAIN buckets : e \in Range(BucketChain(i))}

\* C1: a successful resize(new_size), for a new_size above, equal to or below
\* table_size, leaves the chains holding exactly the entries they held: each
\* in exactly one chain, once, none added, with its hash, literal and shared
\* flag unchanged.
C1_ResizeKeepsEntries ==
    [][(last'.op = "resize" /\ last'.ret) =>
          /\ Chained' = Chained
          /\ element_count' = Cardinality(Chained)
          /\ \A e \in Chained :
                /\ Cardinality(BucketsOf(e)') = 1
                /\ mem'[e].hash = mem[e].hash
                /\ mem'[e].literal = mem[e].literal
                /\ mem'[e].shared = mem[e].shared]_vars

\* a successful resize of two entries of one chain, one of them shared
C1_Witness ==
    /\ last.op = "resize" /\ last.ret
    /\ number_of_entries = 2
    /\ \E i \in DOMAIN buckets : Len(BucketChain(i)) = 2
    /\ \E e \in Chained : mem[e].shared
    /\ \E e \in Chained : ~mem[e].shared

\* C2: every entry in the chain of bucket i has hash_to_index(hash) = i under
\* the current table_size, after any insert, remove, resize or maybe_grow.
C2_EntriesInTheirBucket ==
    /\ DOMAIN buckets = 0..(table_size - 1)
    /\ \A i \in DOMAIN buckets : \A e \in Range(BucketChain(i)) :
          hash_to_index(mem[e].hash, table_size) = i

\* a resize to three buckets has spread two entries over buckets 1 and 2
C2_Witness ==
    /\ last.op = "resize" /\ last.ret
    /\ table_size = 3
    /\ buckets[1] # NULL /\ buckets[2] # NULL

\* C3: number_of_entries is the number of entries counted over the chains of
\* all table_size buckets, and no resize (successful or failed) and no
\* maybe_grow changes number_of_entries.
C3_CountMatchesChains ==
    /\ [](number_of_entries = element_count)
    /\ [][last'.op \in {"resize", "maybe_grow"} =>
             number_of_entries' = number_of_entries]_vars

\* a maybe_grow that resized a table of two entries
C3_Witness ==
    /\ last.op = "maybe_grow" /\ last.ret /\ last.alloc = "ok"
    /\ number_of_entries = 2
    /\ element_count = 2

\* C4: maybe_grow(max_size, load_factor) returns true exactly when
\* table_size < max_size and number_of_entries / table_size > load_factor.
C4_MaybeGrowResult ==
    [][last'.op = "maybe_grow" =>
          (last'.ret <=> /\ table_size < last'.max_size
                         /\ number_of_entries \div table_size > last'.load_factor)]_vars

\* maybe_grow returned true with a load of 2 over a load factor of 1
C4_Witness ==
    /\ last.op = "maybe_grow" /\ last.ret
    /\ last.load_factor = 1
    /\ number_of_entries = 2

\* C5: whenever maybe_grow returns true the table_size after the call is
\* min(2 * table_size before, max_size), whatever the bucket-array allocation
\* of the internal resize did.
C5_GrowsWhenTrue ==
    [][(last'.op = "maybe_grow" /\ last'.ret) =>
          table_size' = MIN2(2 * table_size, last'.max_size)]_vars

\* C6 as stated: with table_size 16 and 33 entries, maybe_grow(max_size, 2)
\* with max_size >= 32 returns true and leaves table_size = 32.
C6_Original ==
    [][(/\ table_size = 16 /\ number_of_entries = 33
        /\ last'.op = "maybe_grow" /\ last'.load_factor = 2
        /\ last'.max_size >= 32) =>
          (last'.ret /\ table_size' = 32)]_vars

\* C6 amended: with table_size 16 and 33 entries the load is 33 / 16 = 2, not
\* above the load factor 2: maybe_grow(max_size, 2) with max_size >= 32
\* returns false and leaves table_size = 16.
C6_NoGrowthAt33 ==
    [][(/\ table_size = 16 /\ number_of_entries = 33
        /\ last'.op = "maybe_grow" /\ last'.load_factor = 2
        /\ last'.max_size >= 32) =>
          (~last'.ret /\ table_size' = 16 /\ UNCHANGED table)]_vars

\* maybe_grow(32, 2) has returned on the table of 16 buckets and 33 entries
C6_Witness ==
    /\ last.op = "maybe_grow" /\ last.load_factor = 2 /\ last.max_size = 32
    /\ ~last.ret
    /\ table_size = 16 /\ number_of_entries = 33

\* C7: a resize whose bucket-array allocation fails returns false and leaves
\* table_size, the buckets, the chains, every entry's fields and
\* number_of_entries as they were.
C7_FailedResizeChangesNothing ==
    [][(last'.op = "resize" /\ ~last'.ret) => UNCHANGED table]_vars

\* a failed resize of a table holding two entries
C7_Witness ==
    /\ last.op = "resize" /\ ~last.ret
    /\ number_of_entries = 2

\* C8: when the bucket-array allocation of the resize inside maybe_grow fails,
\* the table is left as it was and maybe_grow does not return true.
C8_FailedGrowthReported ==
    [][(last'.op = "maybe_grow" /\ last'.alloc = "failed") =>
          (~last'.ret /\ UNCHANGED table)]_vars

\* C9: with a non-empty free list new_entry returns the head of the free
\* list, removes exactly that entry from the free list, allocates no block and
\* leaves the block cursor where it was; a free followed by an allocate leaves
\* the number of blocks as it was.
C9_FreeListReuse ==
    /\ [][(free_list # NULL /\ last'.op = "insert") =>
             /\ last'.ret /\ last'.entry = free_list
             /\ FreeList' = Tail(FreeList)
             /\ UNCHANGED <<entry_blocks, first_free_entry, end_block, heap_top>>]_vars
    /\ [][(last.op = "remove" /\ last'.op = "insert") =>
             Len(entry_blocks') = Len(entry_blocks)]_vars

\* an insert took its entry from a free list of two entries
C9_Witness ==
    /\ last.op = "insert" /\ last.from = "free_list"
    /\ free_list # NULL
    /\ number_of_entries = 1

\* l is the largest power of two that is at most x
LargestPow2(l, x) == \E k \in 0..20 : l = 2^k /\ l <= x /\ x < 2 * l

\* C10: every block new_entry allocates is as long as the largest power of two
\* that is at most entry_size * min(512, max(table_size / 2, number_of_entries)),
\* with table_size and number_of_entries as they are when it is allocated.
C10_BlockLength ==
    [][Len(entry_blocks') = Len(entry_blocks) + 1 =>
          LargestPow2(entry_blocks'[Len(entry_blocks')].len,
                      entry_size * MIN2(512, MAX2(table_size \div 2,
                                                  number_of_entries)))]_vars

\* the entries handed out that lie in the block b
ServedBy(b) == {e \in DOMAIN mem : b.base <= e /\ e < b.base + b.len}

\* C11: with an empty free list new_entry allocates a block only when fewer
\* than entry_size bytes remain in the current one, so the block it leaves
\* behind has served len / entry_size entries (4 for 64 bytes and 16-byte
\* entries).
C11_BlockUsedUp ==
    [][(free_list = NULL /\ Len(entry_blocks') = Len(entry_blocks) + 1) =>
          /\ end_block - first_free_entry < entry_size
          /\ \A i \in DOMAIN entry_blocks :
                Cardinality(ServedBy(entry_blocks[i])) =
                   entry_blocks[i].len \div entry_size]_vars

\* the fields of the table a call that ends the VM leaves behind
table_fields == <<table_size, buckets, number_of_entries, entry_size,
                  free_list, first_free_entry, end_block, entry_blocks,
                  mem, heap_top, build>>

C15_EntriesInsideBlocks ==
    /\ \A i \in DOMAIN entry_blocks : entry_blocks[i].len >= entry_size
    /\ \A e \in DOMAIN mem : \E i \in DOMAIN entry_blocks :
          /\ entry_blocks[i].base <= e
          /\ e + entry_size <= entry_blocks[i].base + entry_blocks[i].len
    /\ \A e, f \in DOMAIN mem : e < f => e + entry_size <= f

RECURSIVE SumSeq(_)
SumSeq(q) == IF q = <<>> THEN 0 ELSE Head(q) + SumSeq(Tail(q))

RECURSIVE SumSizes(_)
\* the payload-size function summed over the entries of S
SumSizes(S) == IF S = {} THEN 0
               ELSE LET e == CHOOSE x \in S : TRUE
                    IN  literal_size(mem[e].literal) + SumSizes(S \ {e})

C14_Statistics ==
    [][last'.op = "statistics" =>
          LET st == last'.stats
          IN  /\ Len(st.summary) = table_size
              /\ \A i \in 0..(table_size - 1) :
                    st.summary[i + 1] = Len(BucketChain(i))
              /\ SumSeq(st.summary) = number_of_entries
              /\ st.literal_bytes = SumSizes(Chained)
              /\ number_of_entries = 0 =>
                    /\ \A i \in DOMAIN st.summary : st.summary[i] = 0
                    /\ st.literal_bytes = 0
              /\ UNCHANGED table]_vars

\* the statistics of two entries with different literals in three buckets
C14_Witness ==
    /\ last.op = "statistics"
    /\ table_size = 3 /\ number_of_entries = 2
    /\ last.stats.literal_bytes = 3 * HeapWordSize
    /\ \E i \in DOMAIN last.stats.summary : last.stats.summary[i] = 0

\* C16: with no lookup or insert between the statements of resize, every
\* lookup and insert finds table_size equal to the length of the installed
\* bucket array and every hash_to_index inside it; table_size and the length
\* of the installed array differ only while a resize call is in progress.
C16_SizeMatchesBuckets ==
    /\ [][last'.op \in {"lookup", "insert"} =>
             /\ DOMAIN buckets = 0..(table_size - 1)
             /\ \A h \in Hashes : hash_to_index(h, table_size) \in DOMAIN buckets]_vars
    /\ [](DOMAIN buckets # 0..(table_size - 1) => rs.pc \in {"moving", "freed"})
    /\ [][last'.op = "resize" =>
             /\ rs'.pc = "idle"
             /\ DOMAIN buckets' = 0..(table_size' - 1)]_vars

\* inside a growing resize with two entries: the size is switched, the
\* installed array still has the old length
C16_Witness ==
    /\ rs.pc = "moving" /\ rs.index_old = 1
    /\ number_of_entries = 2
    /\ table_size = 3
    /\ DOMAIN buckets = 0..1

\* how often entry e occurs in sequence q
Count(q, e) == Cardinality({k \in DOMAIN q : q[k] = e})

\* how often entry e occurs in the bucket chains and in the free list
Occurrences(e) ==
    SumLen([i \in DOMAIN buckets |-> SelectSeq(BucketChain(i), LAMBDA x : x = e)],
           DOMAIN buckets)
    + Count(FreeList, e)

\* C17 as stated: every entry the allocator handed out is in exactly one of
\* a bucket chain or the free list, once.
C17_Original == \A e \in DOMAIN mem : Occurrences(e) = 1

\* C17: an entry the allocator handed out is never in a chain and the free
\* list at once and never twice in either; it is in neither from new_entry
\* until add_entry, and in exactly one of them, once, from then on.
C17_AtMostOnePlace ==
    \A e \in DOMAIN mem : Occurrences(e) = IF e \in held THEN 0 ELSE 1

\* an entry popped from the free list is held by the caller, another entry
\* is chained
C17_Witness ==
    /\ last.op = "new_entry" /\ last.from = "free_list"
    /\ last.entry \in held
    /\ free_list = NULL
    /\ number_of_entries = 1

\* C18: with one max_size >= table_size, one load_factor >= 0 and every
\* allocation succeeding, each maybe_grow call leaves table_size no smaller
\* than it was and no larger than max_size; called again and again with no
\* insert in between, maybe_grow comes to return false and returns false
\* from then on, with table_size at max_size or the load not above
\* load_factor.
C18_GrowthBoundedAndEnds ==
    /\ [][last'.op = "maybe_grow" =>
             /\ table_size <= table_size'
             /\ table_size' <= last'.max_size]_vars
    /\ <>[](/\ last.op = "maybe_grow" /\ ~last.ret
            /\ \/ table_size = last.max_size
               \/ number_of_entries \div table_size <= last.load_factor)

\* maybe_grow returns false at max_size = 3 with four entries in three
\* buckets, the load still above load_factor
C18_Witness ==
    /\ last.op = "maybe_grow" /\ ~last.ret
    /\ last.max_size = 3 /\ table_size = 3
    /\ number_of_entries = 4
    /\ last.load_factor = 0
    /\ Len(entry_blocks) > 0

====
